---- MODULE Spec2Model ----
(***************************************************************************)
(* A model of traffic.core.flight (src/traffic/core/flight.py): a Flight   *)
(* wraps a table (a pandas DataFrame, here a sequence of rows) and offers  *)
(* split, resample, clip and filtering.                                    *)
(*                                                                         *)
(* Time is counted in seconds; a timestamp is the number of seconds since  *)
(* midnight of the first day, as the naive wall-clock value stored in the  *)
(* timestamp column.  A row is a record                                    *)
(*   [timestamp, longitude, latitude, altitude]                            *)
(* where longitude and altitude may be NaN (null).                         *)
(*                                                                         *)
(* Library behaviour the code relies on is modelled as the libraries of    *)
(* the code's time behave: numpy orders NaT below every timedelta (NaT is  *)
(* the smallest int64), pandas anchors the resampling grid on multiples of *)
(* the period counted from midnight, and datetime converts naive values    *)
(* through the local time zone of the process.                             *)
(***************************************************************************)
EXTENDS Integers, Sequences, FiniteSets, TLC

VARIABLES
    data,     \* self.data of the receiver: a sequence of rows
    orig,     \* history: the table the receiver was constructed from
    tz,       \* the local time zone of the process (read by datetime)
    call,     \* the last operation called on the receiver, with its arguments
    result    \* what that call returned, yielded or raised

vars == <<data, orig, tz, call, result>>

\* ---------------------------------------------------------------- bounds

MaxRows == 4
MaxTime == 4
MaxGap == 2
MaxPeriod == 3
MaxClipRows == 3
MaxClipTime == 2
MaxSegments == 2
MaxFilterRows == 2
MaxFilterTime == 2
MaxValue == 1
MaxFeatures == 2
MaxFrameRows == 3
MaxFrameTime == 1

\* ---------------------------------------------------------------- tables

\* A null cell (NaN / None) of a numeric column; real values are >= 0.
NaN == -1

notnull(v) == v # NaN

\* The identity of the receiver, and of the first Flight object a call
\* constructs; the objects of one call get consecutive identities.
SelfId == 0
FirstId == SelfId + 1

Range(s) == {s[i] : i \in DOMAIN s}

\* A slice that starts one row late.
ilocSkipping(tbl, lo, hi) == SubSeq(tbl, lo + 2, hi)

\* data.iloc[lo:hi] with 0-based, end-exclusive positions, as a 1-based sequence.
iloc(tbl, lo, hi) == SubSeq(tbl, lo + 1, hi)

\* self.__class__(data): a new Flight object wrapping the table.
NewFlight(id, tbl) == [obj |-> id, data |-> tbl]

RECURSIVE Wrap(_, _)
Wrap(tables, id) ==
    IF tables = <<>> THEN <<>>
    ELSE <<NewFlight(id, Head(tables))>> \o Wrap(Tail(tables), id + 1)

\* min(self.timestamp), max(self.timestamp); both raise on an empty table.
start(tbl) == CHOOSE t \in {r.timestamp : r \in Range(tbl)} :
                  \A r \in Range(tbl) : t <= r.timestamp

stop(tbl) == CHOOSE t \in {r.timestamp : r \in Range(tbl)} :
                 \A r \in Range(tbl) : t >= r.timestamp

\* ----------------------------------------------------------------- split

\* np.timedelta64(value, unit) in seconds.
UnitSeconds(unit) ==
    CASE unit = "s" -> 1
      [] unit = "m" -> 60
      [] unit = "h" -> 3600

timedelta64(value, unit) == value * UnitSeconds(unit)

\* data.timestamp.diff().values: NaT first, then the consecutive differences.
NaT == [nat |-> TRUE, v |-> 0]

diff(tbl) ==
    [i \in 1..Len(tbl) |->
        IF i = 1 THEN NaT
        ELSE [nat |-> FALSE, v |-> tbl[i].timestamp - tbl[i - 1].timestamp]]

\* numpy's ordering of timedelta64 values: NaT is the smallest int64.
Less(a, b) ==
    IF b.nat THEN FALSE
    ELSE IF a.nat THEN TRUE
    ELSE a.v < b.v

\* diff.argmax(): the 0-based position of the first largest element.
argmax(d) ==
    (CHOOSE i \in 1..Len(d) :
        /\ \A j \in 1..Len(d) : ~Less(d[i], d[j])
        /\ \A j \in 1..(i - 1) : Less(d[j], d[i])) - 1

\* A comparison that also splits at a gap equal to the threshold.
MaxReaches(d, thr) ==
    LET m == d[argmax(d) + 1]
    IN  ~m.nat /\ m.v >= thr

\* diff.max() > np.timedelta64(value, unit), for a non-empty diff.
MaxExceeds(d, thr) ==
    LET m == d[argmax(d) + 1]
    IN  ~m.nat /\ m.v > thr

\* _split: the tables it yields, in yield order, and whether it raised
\* (diff.max() of an empty array raises ValueError before anything is yielded).
RECURSIVE _split(_, _)
_split(tbl, thr) ==
    IF Len(tbl) = 0 THEN [legs |-> <<>>, raised |-> TRUE]
    ELSE IF MaxExceeds(diff(tbl), thr)
    THEN LET at == argmax(diff(tbl))
             left == _split(iloc(tbl, 0, at), thr)
             right == _split(iloc(tbl, at, Len(tbl)), thr)
         IN  IF left.raised THEN left
             ELSE [legs |-> left.legs \o right.legs, raised |-> right.raised]
    ELSE [legs |-> <<tbl>>, raised |-> FALSE]

\* ------------------------------------------------- local time conversions

Hour == 60 * 60
Day == 24 * Hour

\* The wall-clock second (since midnight) at which the zone "DST" skips an
\* hour: wall times in [GapStart, GapStart + Hour) do not exist there.
GapStart == 2 * Hour

\* utcoffset of the zone at epoch second e (epoch counted from midnight UTC).
\* "UTC" has none; "DST" is UTC+1 until 01:00 UTC and UTC+2 afterwards.
utcoffset(zone, e) ==
    IF zone = "UTC" THEN 0
    ELSE IF e < GapStart - Hour THEN Hour ELSE 2 * Hour

\* time.localtime(u) read back as seconds: the wall clock at epoch u.
local(zone, u) == u + utcoffset(zone, u)

\* datetime.fromtimestamp(t): epoch seconds to a naive local datetime.
fromtimestamp(zone, e) == local(zone, e)

\* time.to_pydatetime().timestamp() of a naive datetime with fold = 0:
\* CPython's datetime._mktime, which solves t = local(u) for u.
timestamp(zone, t) ==
    LET a == local(zone, t) - t
        u1 == t - a
        t1 == local(zone, u1)
        b == IF t1 = t THEN local(zone, u1 - Day) - (u1 - Day) ELSE t1 - u1
        u2 == t - b
        t2 == local(zone, u2)
    IN  IF t1 = t /\ a = b THEN u1
        ELSE IF t2 = t THEN u2
        ELSE IF t1 = t THEN u1
        ELSE IF u1 > u2 THEN u1 ELSE u2

\* --------------------------------------------------- coords, xy_time, clip

\* Flight.airborne: the rows with a non-null altitude.
airborne(tbl) == SelectSeq(tbl, LAMBDA r : notnull(r.altitude))

\* Flight.coords: (longitude, latitude, altitude) of the rows with a
\* non-null longitude.
coords(tbl) ==
    LET kept == SelectSeq(tbl, LAMBDA r : notnull(r.longitude))
    IN  [k \in 1..Len(kept) |->
            <<kept[k].longitude, kept[k].latitude, kept[k].altitude>>]

\* Flight.timestamp: the timestamp column, every row of it.
timestamps(tbl) == [k \in 1..Len(tbl) |-> tbl[k].timestamp]

Min2(a, b) == IF a < b THEN a ELSE b

\* Flight.xy_time: zip(self.coords, self.timestamp) pairs the k-th element of
\* one with the k-th element of the other and stops at the shorter.
xy_time(zone, tbl) ==
    LET c == coords(tbl)
        t == timestamps(tbl)
    IN  [k \in 1..Min2(Len(c), Len(t)) |->
            <<c[k][1], c[k][2], timestamp(zone, t[k])>>]

MinOf(S) == CHOOSE x \in S : \A y \in S : x <= y
MaxOf(S) == CHOOSE x \in S : \A y \in S : x >= y

\* The whole seconds strictly between two time coordinates.
Between(a, b) == (MinOf({a, b}) + 1)..(MaxOf({a, b}) - 1)

\* LineString.intersection(shape) is the geometry library's; what the code
\* reads of it is, per connected path, the third coordinate of its points.
\* A path runs along the curve: it may enter between two vertices (at an
\* interpolated time), passes the vertices lo..hi and may leave between two
\* vertices.  entry and exit are <<>> or <<z>>.
PathsOf(curve) ==
    LET n == Len(curve)
        z(k) == curve[k][3]
        Cut(k) == IF k >= 1 /\ k < n
                  THEN {<<>>} \cup {<<x>> : x \in Between(z(k), z(k + 1))}
                  ELSE {<<>>}
        Cuts == UNION {Cut(k) : k \in 0..n}
    IN  {p \in [lo : 1..n, hi : 0..n, entry : Cuts, exit : Cuts] :
            /\ p.hi >= p.lo - 1
            /\ p.entry \in Cut(p.lo - 1)
            /\ p.exit \in Cut(p.hi)
            /\ Len(p.entry) + (p.hi - p.lo + 1) + Len(p.exit) >= 2
            /\ (p.hi < p.lo => p.entry # p.exit)}

\* np.stack(path.coords)[:, 2]: the time coordinates of a path's points.
PathZ(curve, p) ==
    p.entry \o [k \in 1..(p.hi - p.lo + 1) |-> curve[p.lo + k - 1][3]] \o p.exit

\* The intersections a shape can have with the curve: no path, one path
\* (a LineString) or several paths that share no vertex, in their order along
\* the curve (a MultiLineString).  An empty curve has the empty intersection
\* only.
RECURSIVE PathsAfter(_, _, _)
PathsAfter(paths, last, most) ==
    {<<>>} \cup
    IF most = 0 THEN {}
    ELSE UNION {{<<p>> \o rest : rest \in PathsAfter(paths, p.hi, most - 1)}
                : p \in {q \in paths : q.lo > last}}

Intersections(curve, most) ==
    IF Len(curve) < 2 THEN {<<>>} ELSE PathsAfter(PathsOf(curve), 0, most)

\* self.data[(timestamp >= min(times)) & (timestamp <= max(times))], with
\* times the path's time coordinates through datetime.fromtimestamp.
Window(zone, tbl, zs) ==
    LET times == {fromtimestamp(zone, zs[k]) : k \in 1..Len(zs)}
    IN  SelectSeq(tbl, LAMBDA r : r.timestamp >= MinOf(times)
                                  /\ r.timestamp <= MaxOf(times))

\* -------------------------------------------------------------- resample

HasDuplicates(tbl) ==
    \E i, j \in 1..Len(tbl) : i # j /\ tbl[i].timestamp = tbl[j].timestamp

\* A grid that starts at the first timestamp itself.
IndexFromStart(tbl, period) ==
    [k \in 1..((stop(tbl) - start(tbl)) \div period + 1) |->
        [timestamp |-> start(tbl) + (k - 1) * period]]

\* The index of .set_index("timestamp").resample(rule).interpolate(): pandas
\* bins from the first timestamp floored to a multiple of the period (counted
\* from midnight) and labels each bin by its left edge, the last bin being
\* the one that holds the last timestamp.
ResampleIndex(tbl, period) ==
    LET first == (start(tbl) \div period) * period
        last == (stop(tbl) \div period) * period
    IN  [k \in 1..((last - first) \div period + 1) |->
            [timestamp |-> first + (k - 1) * period]]

\* ------------------------------------------------------------- filtering

\* The columns of the table, in column order, and those of a numeric dtype
\* (the timestamp column is datetime64).
Columns == <<"timestamp", "longitude", "latitude", "altitude">>

NumericColumns == SelectSeq(Columns, LAMBDA c : c # "timestamp")

default_kernels_size ==
    [f \in {"altitude", "track", "ground_speed", "longitude", "latitude",
            "cas", "tas"} |->
        CASE f = "altitude" -> 17
          [] f \in {"track", "ground_speed", "cas", "tas"} -> 5
          [] f \in {"longitude", "latitude"} -> 15]

\* The rows in timestamp order, ascending or descending.  numpy's quicksort
\* sorts an array of up to 16 elements by insertion, which leaves rows of
\* equal timestamp in the order they had.
RECURSIVE Sorted(_, _)
Sorted(tbl, ascending) ==
    IF tbl = <<>> THEN <<>>
    ELSE LET n == Len(tbl)
             Before(a, b) == IF ascending THEN a <= b ELSE a >= b
             head == CHOOSE i \in 1..n :
                         /\ \A j \in 1..n : Before(tbl[i].timestamp, tbl[j].timestamp)
                         /\ \A j \in 1..(i - 1) : tbl[j].timestamp # tbl[i].timestamp
             Without(i) == SubSeq(tbl, 1, i - 1) \o SubSeq(tbl, i + 1, n)
         IN  <<tbl[head]>> \o Sorted(Without(head), ascending)

\* A sort in descending order.
sort_valuesDescending(tbl) == Sorted(tbl, FALSE)

\* self.data.sort_values(by='timestamp')
sort_values(tbl) == Sorted(tbl, TRUE)

\* A fallback of 5 for the features the dictionary does not list.
KernelDefaultFive(feature) ==
    IF feature \in DOMAIN default_kernels_size
    THEN default_kernels_size[feature]
    ELSE 5

\* default_kernels_size.get(feature, 17)
KernelDefault(feature) ==
    IF feature \in DOMAIN default_kernels_size
    THEN default_kernels_size[feature]
    ELSE 17

\* The kernels_size list built when the argument is None.
DefaultKernels(features) ==
    [i \in 1..Len(features) |-> KernelDefault(features[i])]

\* medfilt(y, kernel_size), the median filter prepare calls.  The module
\* neither imports nor defines the name; this is scipy.signal.medfilt, which
\* the docstring of prepare names: the median of the window of kernel_size
\* values centred on each point, the signal padded with zeros.
medfilt(y, kernel_size) ==
    LET h == (kernel_size - 1) \div 2
        n == Len(y)
        At(j) == IF j >= 1 /\ j <= n THEN y[j] ELSE 0
        W(i) == (i - h)..(i + h)
    IN  [i \in 1..n |->
            CHOOSE m \in {At(j) : j \in W(i)} :
                /\ Cardinality({j \in W(i) : At(j) < m}) <= h
                /\ Cardinality({j \in W(i) : At(j) <= m}) >= h + 1]

\* prepare: per row y, y_m, epsilon2 and sigma2, the square of sigma (sigma
\* is np.sqrt of the filtered epsilon2 and is kept squared to stay integral).
prepare(y, kernel_size) ==
    LET y_m == medfilt(y, kernel_size)
        epsilon2 == [i \in 1..Len(y) |-> (y[i] - y_m[i]) * (y[i] - y_m[i])]
        sigma2 == medfilt(epsilon2, kernel_size)
    IN  [i \in 1..Len(y) |->
            [y |-> y[i], y_m |-> y_m[i], epsilon2 |-> epsilon2[i],
             sigma2 |-> sigma2[i]]]

RECURSIVE Sum(_)
Sum(s) == IF s = <<>> THEN 0 ELSE Head(s) + Sum(Tail(s))

\* decision: the value kept per row, as [at, side, sigma2] meaning
\* at + side * sqrt(sigma2).  epsilon2 > mean is compared times the row count,
\* y < y_m - sigma and y > y_m + sigma through squares.
decision(df) ==
    LET n == Len(df)
        total == Sum([i \in 1..n |-> df[i].epsilon2])
        Keep(v) == [at |-> v, side |-> 0, sigma2 |-> 0]
    IN  [i \in 1..n |->
            LET row == df[i]
                d == row.y - row.y_m
            IN  IF row.epsilon2 * n > total
                THEN IF d < 0 /\ d * d > row.sigma2
                     THEN [at |-> row.y_m, side |-> -1, sigma2 |-> row.sigma2]
                     ELSE IF d > 0 /\ d * d > row.sigma2
                     THEN [at |-> row.y_m, side |-> 1, sigma2 |-> row.sigma2]
                     ELSE Keep(row.y)
                ELSE Keep(row.y)]

\* An optional argument: None, or a value.
None == [none |-> TRUE, val |-> <<>>]
Some(x) == [none |-> FALSE, val |-> x]

\* The first pass of the loop over zip(features, kernels_size): selecting a
\* column the table lacks raises KeyError; otherwise prepare calls medfilt,
\* a name that the module neither imports nor defines.
FirstPass(feature) ==
    IF feature \notin Range(Columns) THEN "KeyError" ELSE "NameError"

\* ------------------------------------------------------------ the inputs

Row(t, lon, lat, alt) ==
    [timestamp |-> t, longitude |-> lon, latitude |-> lat, altitude |-> alt]

Tables(rows, most) == UNION {[1..k -> rows] : k \in 0..most}

\* A table of plain airborne samples, one per timestamp given.
Track(ts) == [k \in 1..Len(ts) |-> Row(ts[k], 0, 0, 0)]

\* An altitude signal with a single spike, one sample per second.
ScenarioSpike ==
    LET y == <<1000, 1000, 1000, 9999, 1000, 1000, 1000>>
    IN  [k \in 1..Len(y) |-> Row(k - 1, 0, 0, y[k])]

\* Timestamps t0, t0+1s, t0+2s, t0+15m, t0+15m+1s.
ScenarioSplit == Track(<<0, 1, 2, 15 * 60, 15 * 60 + 1>>)

Outcome(kind, flights, exc) == [kind |-> kind, flights |-> flights, exc |-> exc]

InitWith(tables, zones) ==
    /\ data \in tables
    /\ orig = data
    /\ tz \in zones
    /\ call = [op |-> "none"]
    /\ result = Outcome("fresh", <<>>, "")

Fresh == call.op = "none"

\* ------------------------------------------------------------ operations

\* Flight.split(value, unit), consumed to its end.
Split(value, unit) ==
    LET r == _split(data, timedelta64(value, unit))
    IN  /\ call' = [op |-> "split", value |-> value, unit |-> unit]
        /\ result' = Outcome(IF r.raised THEN "raise" ELSE "legs",
                             Wrap(r.legs, FirstId),
                             IF r.raised THEN "ValueError" ELSE "")
        /\ UNCHANGED <<data, orig, tz>>

\* A resample that stores the new table in the receiver.
ResampleInPlace(period) ==
    /\ Len(data) > 0 /\ ~HasDuplicates(data)
    /\ call' = [op |-> "resample", rule |-> period]
    /\ data' = ResampleIndex(data, period)
    /\ result' = Outcome("flight", <<NewFlight(SelfId, data')>>, "")
    /\ UNCHANGED <<orig, tz>>

\* Flight.resample(rule), rule a period in seconds.  self.start raises on an
\* empty table; reindexing on the grid raises on a duplicated timestamp.
Resample(period) ==
    /\ call' = [op |-> "resample", rule |-> period]
    /\ IF Len(data) = 0 \/ HasDuplicates(data)
       THEN result' = Outcome("raise", <<>>, "ValueError")
       ELSE result' = Outcome("flight",
                              <<NewFlight(FirstId, ResampleIndex(data, period))>>,
                              "")
    /\ UNCHANGED <<data, orig, tz>>

\* Flight.clip(shape), a lazy result consumed to its end.  The shape is
\* given by the intersection it has with the curve.  airborne() constructs a
\* Flight of its own; LineString raises on a single point.
Clip ==
    LET curve == xy_time(tz, airborne(data))
    IN  \E inter \in Intersections(curve, MaxSegments) :
            LET legs == [k \in 1..Len(inter) |->
                            Window(tz, data, PathZ(curve, inter[k]))]
            IN  /\ call' = [op |-> "clip", linestring |-> curve,
                            intersection |-> inter]
                /\ IF Len(curve) = 1
                   THEN result' = Outcome("raise", <<>>, "ValueError")
                   ELSE result' = Outcome(CASE Len(inter) = 0 -> "None"
                                            [] Len(inter) = 1 -> "flight"
                                            [] OTHER -> "legs",
                                          Wrap(legs, FirstId + 1), "")
                /\ UNCHANGED <<data, orig, tz>>

\* Flight.filtering(features, kernels_size).
Filtering(features, kernels_size) ==
    LET f == IF features.none THEN NumericColumns ELSE features.val
        k == IF kernels_size.none THEN DefaultKernels(f) ELSE kernels_size.val
    IN  /\ data' = sort_values(data)
        /\ call' = [op |-> "filtering", features |-> f, kernels_size |-> k,
                    defaults |-> kernels_size.none, sorted |-> data']
        /\ result' = IF Min2(Len(f), Len(k)) = 0
                     THEN Outcome("self", <<>>, "")
                     ELSE Outcome("raise", <<>>, FirstPass(f[1]))
        /\ UNCHANGED <<orig, tz>>

\* -------------------------------------------------------- specifications

Zones == {"UTC", "DST"}

SplitTables == Tables({Row(t, 0, 0, 0) : t \in 0..MaxTime}, MaxRows)

\* split: every table of plain samples and the scenario, one call.
InitSplit == InitWith(SplitTables \cup {ScenarioSplit}, {"UTC"})

NextSplit ==
    /\ Fresh
    /\ \E value \in (-1..MaxGap) \cup {10}, unit \in {"s", "m"} :
           Split(value, unit)

SpecSplit == InitSplit /\ [][NextSplit]_vars

\* resample: every table of plain samples, one call.
InitResample == InitWith(SplitTables, {"UTC"})

NextResample ==
    /\ Fresh
    /\ \E period \in 1..MaxPeriod : Resample(period)

SpecResample == InitResample /\ [][NextResample]_vars

\* clip: samples around the hour the zone "DST" skips, airborne or not, with
\* or without a position, in both zones, one call.
ClipRows ==
    {Row(GapStart - 1 + t, lon, 0, alt) :
        t \in 0..MaxClipTime, lon \in {NaN, 0}, alt \in {NaN, 0}}

InitClip == InitWith(Tables(ClipRows, MaxClipRows), Zones)

NextClip ==
    /\ Fresh
    /\ Clip

SpecClip == InitClip /\ [][NextClip]_vars

\* split, resample and clip called in any order, any number of times, on
\* samples with a position, airborne or not.
FrameRows ==
    {Row(GapStart - 1 + t, 0, 0, alt) : t \in 0..MaxFrameTime, alt \in {NaN, 0}}

InitFrame == InitWith(Tables(FrameRows, MaxFrameRows), Zones)

NextFrame ==
    \/ \E value \in 0..1 : Split(value, "s")
    \/ \E period \in 1..2 : Resample(period)
    \/ Clip

SpecFrame == InitFrame /\ [][NextFrame]_vars

\* filtering: tables in any row order with a varying latitude, and the
\* spike scenario, one call on a few argument lists.
FilterRows == {Row(t, 0, lat, 0) : t \in 0..MaxFilterTime, lat \in 0..MaxValue}

InitFilter == InitWith(Tables(FilterRows, MaxFilterRows) \cup {ScenarioSpike}, {"UTC"})

NextFilter ==
    /\ Fresh
    /\ \E features \in {None, Some(<<>>), Some(<<"altitude">>), Some(<<"track">>),
                        Some(<<"latitude", "altitude">>)},
          kernels_size \in {None, Some(<<5>>), Some(<<3, 5>>)} :
           Filtering(features, kernels_size)

SpecFilter == InitFilter /\ [][NextFilter]_vars

\* filtering: every list of feature names, with and without kernel sizes.
FeatureNames ==
    {"altitude", "track", "ground_speed", "longitude", "latitude", "cas", "tas",
     "vertical_rate"}

InitKernels == InitWith({<<>>, ScenarioSpike}, {"UTC"})

NextKernels ==
    /\ Fresh
    /\ \E features \in {None} \cup {Some(f) : f \in
                           UNION {[1..k -> FeatureNames] : k \in 0..MaxFeatures}},
          kernels_size \in {None, Some(<<5>>)} :
           Filtering(features, kernels_size)

SpecKernels == InitKernels /\ [][NextKernels]_vars

\* ----------------------------------------------------------------- claims

\* The tables of the Flights the last call returned or yielded, in order.
Yielded == [k \in 1..Len(result.flights) |-> result.flights[k].data]

RECURSIVE Concat(_)
Concat(tables) ==
    IF tables = <<>> THEN <<>> ELSE Head(tables) \o Concat(Tail(tables))

\* The gap threshold of the last split call, in seconds.
Threshold == call.value * UnitSeconds(call.unit)

\* C1: the legs split yields, concatenated in yield order, are the rows of
\* the receiver's table: the same rows in the same order, none duplicated,
\* none dropped.
C1_Partition ==
    call.op = "split" => Concat(Yielded) = data

\* C1 witness: a split into at least two legs of a table whose rows are not
\* in timestamp order.
C1_Witness ==
    /\ call.op = "split"
    /\ Len(result.flights) >= 2
    /\ \E i \in 2..Len(data) : data[i].timestamp < data[i - 1].timestamp

\* The cut positions the claim names: the rows whose gap to the row before
\* exceeds the threshold.
Cuts(tbl, thr) ==
    {i \in 2..Len(tbl) : tbl[i].timestamp - tbl[i - 1].timestamp > thr}

\* C2: split cuts exactly at the rows whose gap to the row before exceeds
\* the threshold: a leg starts at the first row and at every such row, no
\* leg holds a gap above the threshold, and adjacent legs are separated by
\* one.
C2_CutsAtGaps ==
    (call.op = "split" /\ result.kind = "legs") =>
        LET legs == Yielded
            first(k) == 1 + Len(Concat(SubSeq(legs, 1, k - 1)))
        IN  /\ Len(legs) = Cardinality(Cuts(data, Threshold)) + 1
            /\ \A k \in 2..Len(legs) : first(k) \in Cuts(data, Threshold)
            /\ \A k \in 1..Len(legs) :
                   /\ Cuts(legs[k], Threshold) = {}
                   /\ legs[k] = SubSeq(data, first(k), first(k) + Len(legs[k]) - 1)

\* C2 witness: the scenario t0, t0+1s, t0+2s, t0+15m, t0+15m+1s split at 10
\* minutes gives the legs of rows {0,1,2} and rows {3,4}.
C2_Witness ==
    /\ data = ScenarioSplit
    /\ call = [op |-> "split", value |-> 10, unit |-> "m"]
    /\ Yielded = <<SubSeq(data, 1, 3), SubSeq(data, 4, 5)>>

\* C8: split on a table with 0 rows or 1 row yields exactly one leg, equal
\* to the table, and raises no error.
C8_SmallTables ==
    (call.op = "split" /\ Len(data) <= 1) =>
        /\ result.kind = "legs"
        /\ Yielded = <<data>>

\* The timestamp column of the table resample returned.
Resampled == timestamps(result.flights[1].data)

C5_ReceiverUntouched ==
    /\ data = orig
    /\ \A k \in 1..Len(result.flights) : result.flights[k].obj # SelfId

\* C5 witness: a clip that returned two of the three rows of the table.
C5_Witness ==
    /\ call.op = "clip"
    /\ result.kind = "flight"
    /\ Len(data) = 3
    /\ Len(result.flights[1].data) = 2

\* The span of the airborne rows of the receiver's table.
AirborneTimes == {r.timestamp : r \in Range(airborne(orig))}

\* C6: every table clip returns holds exactly the rows of the receiver whose
\* timestamp lies in the closed window recovered from one intersection path,
\* values unmodified, and every such timestamp lies between the earliest and
\* the latest timestamp of the airborne rows.
C6_ClipLocality ==
    (call.op = "clip" /\ result.kind \in {"flight", "legs"}) =>
        \A k \in 1..Len(Yielded) :
            /\ \E lo, hi \in
                   {fromtimestamp(tz, z) :
                       z \in Range(PathZ(call.linestring, call.intersection[k]))} :
                   Yielded[k] = SelectSeq(orig, LAMBDA r :
                                   lo <= r.timestamp /\ r.timestamp <= hi)
            /\ \A r \in Range(Yielded[k]) :
                   /\ MinOf(AirborneTimes) <= r.timestamp
                   /\ r.timestamp <= MaxOf(AirborneTimes)

\* The curve the claim describes: one point per airborne row with a
\* longitude, carrying that row's own timestamp as epoch seconds.
RowCurve ==
    LET rows == SelectSeq(airborne(orig), LAMBDA r : notnull(r.longitude))
    IN  [k \in 1..Len(rows) |->
            <<rows[k].longitude, rows[k].latitude, timestamp(tz, rows[k].timestamp)>>]

\* C10: the curve clip builds has one point per airborne row with a non-null
\* longitude, in row order, whose third coordinate is the epoch second of the
\* row that supplied its longitude and latitude.
C10_CurveRows ==
    call.op = "clip" => call.linestring = RowCurve

\* The value a cell holds is the value [at, side, sigma2] stands for.
Holds(cell, v) ==
    IF v.side = 0 THEN cell = v.at
    ELSE /\ (cell - v.at) * v.side >= 0
         /\ (cell - v.at) * (cell - v.at) = v.sigma2

Column(tbl, c) == [i \in 1..Len(tbl) |-> tbl[i][c]]

\* C3: a filtered feature holds, row by row, the raw value where epsilon2
\* does not exceed its mean and the raw value clamped into
\* [y_m - sigma, y_m + sigma] where it does; so the spike of
\* 1000,1000,1000,9999,1000,1000,1000 under a kernel of 5 comes within the
\* band around 1000.
C3_ClampedValues ==
    (/\ call.op = "filtering"
     /\ Len(call.features) >= 1 /\ Len(call.kernels_size) >= 1
     /\ call.features[1] = "altitude"
     /\ call.kernels_size[1] % 2 = 1) =>
        LET values == decision(prepare(Column(call.sorted, "altitude"),
                                       call.kernels_size[1]))
        IN  \A i \in 1..Len(data) : Holds(data[i].altitude, values[i])

\* The columns filtering was not asked to filter.
Untargeted == Range(Columns) \ Range(call.features)

Project(row, cols) == [c \in cols |-> row[c]]

\* C4 as stated: filtering changes neither the row count nor the sequence of
\* values of any column that is not filtered, also when the rows are not in
\* timestamp order.
C4_ColumnsUnchanged ==
    call.op = "filtering" =>
        /\ Len(data) = Len(orig)
        /\ \A c \in Untargeted : Column(data, c) = Column(orig, c)

\* C4 amended: filtering keeps the row count and moves the rows as wholes
\* into ascending timestamp order: the rows of the result are the rows of the
\* input, each with its unfiltered values, and when the input is already in
\* strictly ascending timestamp order every unfiltered column is the same
\* sequence.
C4_RowsReordered ==
    call.op = "filtering" =>
        LET n == Len(orig)
        IN  /\ Len(data) = n
            /\ \A i \in 2..n : data[i - 1].timestamp <= data[i].timestamp
            /\ \E f \in [1..n -> 1..n] :
                   /\ \A i, j \in 1..n : i # j => f[i] # f[j]
                   /\ \A i \in 1..n :
                          Project(data[i], Untargeted) = Project(orig[f[i]], Untargeted)
            /\ (\A i \in 2..n : orig[i - 1].timestamp < orig[i].timestamp) =>
                   \A c \in Untargeted : Column(data, c) = Column(orig, c)

\* C4 witness: a filtering of altitude on two rows out of timestamp order
\* with different latitudes.
C4_Witness ==
    /\ call.op = "filtering"
    /\ call.features = <<"altitude">>
    /\ Len(orig) = 2
    /\ orig[1].timestamp > orig[2].timestamp
    /\ orig[1].latitude # orig[2].latitude
    /\ Column(data, "latitude") # Column(orig, "latitude")

\* C9 as stated: without kernel sizes a feature gets 17 if it is altitude,
\* longitude or latitude, 5 if it is track, ground_speed, cas or tas, and 17
\* if it is none of these.
C9_DefaultsAsStated ==
    (call.op = "filtering" /\ call.defaults) =>
        /\ Len(call.kernels_size) = Len(call.features)
        /\ \A i \in 1..Len(call.features) :
               call.kernels_size[i] =
                   IF call.features[i] \in {"track", "ground_speed", "cas", "tas"}
                   THEN 5 ELSE 17

\* C9 amended: without kernel sizes a feature gets 17 if it is altitude, 15
\* if it is longitude or latitude, 5 if it is track, ground_speed, cas or
\* tas, and 17 if it is none of these.
C9_Defaults ==
    (call.op = "filtering" /\ call.defaults) =>
        /\ Len(call.kernels_size) = Len(call.features)
        /\ \A i \in 1..Len(call.features) :
               call.kernels_size[i] =
                   CASE call.features[i] \in {"track", "ground_speed", "cas", "tas"} -> 5
                     [] call.features[i] \in {"longitude", "latitude"} -> 15
                     [] OTHER -> 17

\* C9 witness: a call without kernel sizes on longitude and a feature the
\* dictionary does not list.
C9_Witness ==
    /\ call.op = "filtering"
    /\ call.defaults
    /\ call.features = <<"longitude", "vertical_rate">>
    /\ call.kernels_size = <<15, 17>>

====
